---- MODULE Spec2Model ----
(***************************************************************************)
(* Model of TermGenerator/termgenerator.py: the command-line reader, the   *)
(* atom pool, the recursive term builder and the output writer.            *)
(*                                                                         *)
(* A Python string is modelled as a sequence of chunks (TLA+ strings)      *)
(* whose concatenation is the text.  Terms, numerals and command-line      *)
(* arguments are sequences of one-character chunks, so len() is Len; the   *)
(* usage message is a sequence of its "\n"-free pieces and "\n" chunks.    *)
(* Standard output is the sequence of the lines written so far.            *)
(***************************************************************************)
EXTENDS Integers, Sequences, FiniteSets

VARIABLES argv, rng, pc, status, N, LENGTH, i, stdout, stack, choice, result, generated

(***************************************************************************)
(* argv      sys.argv: the script name and the command-line arguments      *)
(* rng       the random source behind choice() and randint()               *)
(* pc        where main stands: "read_config", "header", "loop",           *)
(*           "random_term", "print", "done", or "exit" after sys.exit      *)
(* status    the exit status of the process, -1 while it runs              *)
(* N, LENGTH the pair main receives from read_config, 0 before             *)
(* i         the loop variable of main: the terms printed so far           *)
(* stdout    the lines written to standard output                          *)
(* stack     the active random_term calls, outermost first: the target     *)
(*           length, the term built so far and, in a call that waits for   *)
(*           a sub-term, the operator to put before it                     *)
(* choice    the latest draw of randint(0, 101), -1 before the first       *)
(* result    the value of the latest random_term(LENGTH) call of main      *)
(* generated the values random_term(LENGTH) returned to main, in order     *)
(***************************************************************************)
vars == <<argv, rng, pc, status, N, LENGTH, i, stdout, stack, choice, result, generated>>

(***************************************************************************)
(* Bounds of the exploration.                                              *)
(***************************************************************************)
\* largest integer spelled by a command-line argument
MaxArg == 2

\* largest target length of the stand-alone random_term call
MaxTermLen == 4

\* positions of ATOMS that choice() may return when the random source is
\* unconstrained: the entries "a", "42" and "100" (one, two, three characters)
AtomIdx == {1, 147, 205}

(***************************************************************************)
(* Text helpers: str(), int(), chr(), print()                              *)
(***************************************************************************)
NL == "\n"

Digits == <<"0", "1", "2", "3", "4", "5", "6", "7", "8", "9">>

Letters == <<"a", "b", "c", "d", "e", "f", "g", "h", "i", "j", "k", "l", "m",
             "n", "o", "p", "q", "r", "s", "t", "u", "v", "w", "x", "y", "z">>

IsDigit(c) == \E d \in 1..10 : Digits[d] = c

DigitVal(c) == (CHOOSE d \in 1..10 : Digits[d] = c) - 1

\* str(n) for an integer n
RECURSIVE Str(_)
Str(n) ==
    IF n < 0 THEN <<"-">> \o Str(-n)
    ELSE IF n < 10 THEN <<Digits[n + 1]>>
    ELSE Str(n \div 10) \o <<Digits[(n % 10) + 1]>>

RECURSIVE DigitsValue(_)
DigitsValue(ds) ==
    IF ds = <<>> THEN 0
    ELSE 10 * DigitsValue(SubSeq(ds, 1, Len(ds) - 1)) + DigitVal(ds[Len(ds)])

\* int(s): an optional sign followed by one or more decimal digits;
\* anything else raises ValueError (ok = FALSE).  The blanks and the
\* underscores int() also accepts occur in no argument explored here.
ParseInt(s) ==
    LET signed == Len(s) > 0 /\ s[1] \in {"+", "-"}
        body   == IF signed THEN Tail(s) ELSE s
    IN  IF body = <<>> \/ \E k \in 1..Len(body) : ~IsDigit(body[k])
        THEN [ok |-> FALSE, val |-> 0]
        ELSE [ok |-> TRUE,
              val |-> IF signed /\ s[1] = "-" THEN 0 - DigitsValue(body)
                      ELSE DigitsValue(body)]

\* chr(x) for ord('a') <= x <= ord('z')
Chr(x) == Letters[x - 96]

\* the lines of a text that ends with "\n"
SplitLines(s) ==
    LET P      == {k \in 1..Len(s) : s[k] = NL}
        Nth(n) == CHOOSE p \in P : Cardinality({q \in P : q <= p}) = n
    IN  [n \in 1..Cardinality(P) |->
            SubSeq(s, IF n = 1 THEN 1 ELSE Nth(n - 1) + 1, Nth(n) - 1)]

\* print(x): the text of x and a newline are written to standard output
print(out, s) == out \o SplitLines(s \o <<NL>>)

(***************************************************************************)
(* print_args_error                                                        *)
(***************************************************************************)
UsageTextMut ==
    <<NL, "Usage: termgenerator.py N LENGTH", NL, "where", NL>> \o
    <<"  N:      Number of terms to generate (must be even)", NL>> \o
    <<"  LENGTH: Approximate length of each generated term">>

UsageText ==
    <<NL, "Usage: termgenerator.py N LENGTH", NL, "where", NL>> \o
    <<"  N:      Number of terms to generate (must be even)", NL>> \o
    <<"  LENGTH: Approximate length of each generated term", NL>> \o
    <<"The output of this script can be used as input for the LazyMathInstructor program.">>

print_args_error(out) == print(out, UsageText)

(***************************************************************************)
(* The random source.  rng = "any": every draw is possible.  rng = "min"   *)
(* and rng = "max" are the two constant sources (randint returns its lower *)
(* or upper limit, choice the first or last entry); they drive the run     *)
(* with the default configuration, whose terms are 250 characters long.    *)
(***************************************************************************)
randint(lo, hi) ==
    CASE rng = "any" -> lo..hi
      [] rng = "min" -> {lo}
      [] rng = "max" -> {hi}

RandomChoice(pool) ==
    CASE rng = "any" -> {pool[k] : k \in AtomIdx}
      [] rng = "min" -> {pool[1]}
      [] rng = "max" -> {pool[Len(pool)]}

(***************************************************************************)
(* ATOMS and random_atom                                                   *)
(***************************************************************************)
Repeat(list, times) ==
    [k \in 1..(times * Len(list)) |-> list[((k - 1) % Len(list)) + 1]]

ATOMSMut ==
    Repeat([x \in 1..26 |-> <<Chr(96 + x)>>], 5) \o [x \in 1..101 |-> Str(x - 1)]

ATOMS ==
    Repeat([x \in 1..26 |-> <<Chr(96 + x)>>], 4) \o [x \in 1..101 |-> Str(x - 1)]

random_atom == RandomChoice(ATOMS)

(***************************************************************************)
(* read_config                                                             *)
(***************************************************************************)
DefaultN == 20

DefaultLENGTH == 250

InvalidMut(n, length) == (n <= 0) \/ (length <= 0)

Invalid(n, length) == (n <= 0) \/ (length <= 0) \/ (n % 2 = 1)

read_configMut(args) ==
    IF Len(args) = 3
    THEN LET n == ParseInt(args[2])
             l == ParseInt(args[2])
         IN  IF ~n.ok \/ ~l.ok THEN [exit |-> TRUE, N |-> 0, LENGTH |-> 0]
             ELSE IF Invalid(n.val, l.val) THEN [exit |-> TRUE, N |-> 0, LENGTH |-> 0]
             ELSE [exit |-> FALSE, N |-> n.val, LENGTH |-> l.val]
    ELSE IF Len(args) # 1 THEN [exit |-> TRUE, N |-> 0, LENGTH |-> 0]
    ELSE [exit |-> FALSE, N |-> DefaultN, LENGTH |-> DefaultLENGTH]

\* the outcome of read_config: the pair it returns, or exit = TRUE when it
\* prints the usage message and calls sys.exit(1)
read_config(args) ==
    IF Len(args) = 3
    THEN LET n == ParseInt(args[2])
             l == ParseInt(args[3])
         IN  IF ~n.ok \/ ~l.ok THEN [exit |-> TRUE, N |-> 0, LENGTH |-> 0]
             ELSE IF Invalid(n.val, l.val) THEN [exit |-> TRUE, N |-> 0, LENGTH |-> 0]
             ELSE [exit |-> FALSE, N |-> n.val, LENGTH |-> l.val]
    ELSE IF Len(args) # 1 THEN [exit |-> TRUE, N |-> 0, LENGTH |-> 0]
    ELSE [exit |-> FALSE, N |-> DefaultN, LENGTH |-> DefaultLENGTH]

\* main, line 1: N, LENGTH = read_config()
ReadConfig ==
    /\ pc = "read_config"
    /\ LET c == read_config(argv)
       IN  IF c.exit
           THEN /\ stdout' = print_args_error(stdout)
                /\ status' = 1
                /\ pc' = "exit"
                /\ UNCHANGED <<N, LENGTH>>
           ELSE /\ N' = c.N
                /\ LENGTH' = c.LENGTH
                /\ pc' = "header"
                /\ UNCHANGED <<stdout, status>>
    /\ UNCHANGED <<argv, rng, i, stack, choice, result, generated>>

(***************************************************************************)
(* random_term                                                             *)
(***************************************************************************)
Top == stack[Len(stack)]

Frame(length, atom) == [length |-> length, term |-> atom, op |-> ""]

LoopCondMut(term, length) == Len(term) + 1 < length

\* while len(term) < length
LoopCond(term, length) == Len(term) < length

BranchMut(d) ==
    IF d <= 25 THEN "()"
    ELSE IF d < 45 THEN "+"
    ELSE IF d < 75 THEN "-"
    ELSE "*"

\* the branch taken for a draw of randint(0, 101)
Branch(d) ==
    IF d < 25 THEN "()"
    ELSE IF d < 45 THEN "+"
    ELSE IF d < 75 THEN "-"
    ELSE "*"

WrapMut(term) == <<"(">> \o term

\* f'({term})'
Wrap(term) == <<"(">> \o term \o <<")">>

JoinMut(term, op, sub) == term \o <<" ", op, " ">> \o sub

\* f'{term}{op}{sub}'
Join(term, op, sub) == term \o <<op>> \o sub

SubTargetMut(term, length) == randint(1, length - Len(term) + 1)

\* randint(1, (length - len(term)))
SubTarget(term, length) == randint(1, length - Len(term))

\* term = f'({term})'
Parenthesize ==
    /\ pc = "random_term"
    /\ LoopCond(Top.term, Top.length)
    /\ \E d \in randint(0, 101) :
        /\ Branch(d) = "()"
        /\ choice' = d
        /\ stack' = [stack EXCEPT ![Len(stack)].term = Wrap(@)]
    /\ UNCHANGED <<argv, rng, pc, status, N, LENGTH, i, stdout, result, generated>>

\* term = f'{term}<op>{random_term(randint(1, (length - len(term))))}':
\* the call of random_term, up to its first statement term = random_atom()
AppendCall(op) ==
    /\ pc = "random_term"
    /\ LoopCond(Top.term, Top.length)
    /\ \E d \in randint(0, 101) :
        /\ Branch(d) = op
        /\ choice' = d
        /\ \E sub \in SubTarget(Top.term, Top.length) : \E atom \in random_atom :
             stack' = Append([stack EXCEPT ![Len(stack)].op = op], Frame(sub, atom))
    /\ UNCHANGED <<argv, rng, pc, status, N, LENGTH, i, stdout, result, generated>>

AppendPlus == AppendCall("+")

AppendMinus == AppendCall("-")

AppendTimes == AppendCall("*")

\* return term, to the random_term call that waits for the sub-term
ReturnSub ==
    /\ pc = "random_term"
    /\ Len(stack) > 1
    /\ ~LoopCond(Top.term, Top.length)
    /\ LET caller == stack[Len(stack) - 1]
       IN  stack' = [k \in 1..(Len(stack) - 1) |->
                        IF k = Len(stack) - 1
                        THEN [caller EXCEPT !.term = Join(caller.term, caller.op, Top.term),
                                            !.op = ""]
                        ELSE stack[k]]
    /\ UNCHANGED <<argv, rng, pc, status, N, LENGTH, i, stdout, choice, result, generated>>

\* return term, to main
ReturnMain ==
    /\ pc = "random_term"
    /\ Len(stack) = 1
    /\ ~LoopCond(Top.term, Top.length)
    /\ result' = Top.term
    /\ generated' = Append(generated, Top.term)
    /\ stack' = <<>>
    /\ pc' = "print"
    /\ UNCHANGED <<argv, rng, status, N, LENGTH, i, stdout, choice>>

(***************************************************************************)
(* main                                                                    *)
(***************************************************************************)
HeaderValueMut(n) == n

\* N // 2
HeaderValue(n) == n \div 2

\* print(N // 2)
WriteHeader ==
    /\ pc = "header"
    /\ stdout' = print(stdout, Str(HeaderValue(N)))
    /\ i' = 0
    /\ pc' = "loop"
    /\ UNCHANGED <<argv, rng, status, N, LENGTH, stack, choice, result, generated>>

\* for i in range(N): the call random_term(LENGTH), up to term = random_atom()
CallRandomTerm ==
    /\ pc = "loop"
    /\ i < N
    /\ \E atom \in random_atom : stack' = <<Frame(LENGTH, atom)>>
    /\ pc' = "random_term"
    /\ UNCHANGED <<argv, rng, status, N, LENGTH, i, stdout, choice, result, generated>>

\* print(random_term(LENGTH)), once the call has returned
WriteTerm ==
    /\ pc = "print"
    /\ stdout' = print(stdout, result)
    /\ i' = i + 1
    /\ pc' = "loop"
    /\ UNCHANGED <<argv, rng, status, N, LENGTH, stack, choice, result, generated>>

\* range(N) is exhausted: main returns and the process ends with status 0
Finish ==
    /\ pc = "loop"
    /\ i >= N
    /\ status' = 0
    /\ pc' = "done"
    /\ UNCHANGED <<argv, rng, N, LENGTH, i, stdout, stack, choice, result, generated>>

(***************************************************************************)
(* Specifications                                                          *)
(***************************************************************************)
ProgName == <<"termgenerator.py">>

\* the spellings a command-line argument takes
ArgTokens ==
    {Str(n) : n \in (0 - 3)..MaxArg} \cup
    {<<>>, <<"a", "b", "c">>, <<"1", ".", "5">>, <<"+", "1">>, <<"0", "0">>, <<"-">>}

ArgvSet ==
    {<<ProgName, a>> : a \in ArgTokens} \cup
    {<<ProgName, a, b>> : a \in ArgTokens, b \in ArgTokens} \cup
    {<<ProgName, a, b, c>> : a \in ArgTokens, b \in ArgTokens, c \in {<<"2">>, <<"x">>}}

Start ==
    /\ pc = "read_config"
    /\ status = -1
    /\ N = 0
    /\ LENGTH = 0
    /\ i = 0
    /\ stdout = <<>>
    /\ stack = <<>>
    /\ choice = -1
    /\ result = <<>>
    /\ generated = <<>>

\* the script is started with arguments (any random source) or without
\* (a constant random source)
Init ==
    /\ \/ argv \in ArgvSet /\ rng = "any"
       \/ argv = <<ProgName>> /\ rng \in {"min", "max"}
    /\ Start

Next ==
    \/ ReadConfig
    \/ WriteHeader
    \/ CallRandomTerm
    \/ Parenthesize
    \/ AppendPlus
    \/ AppendMinus
    \/ AppendTimes
    \/ ReturnSub
    \/ ReturnMain
    \/ WriteTerm
    \/ Finish

Spec == Init /\ [][Next]_vars

\* random_term(L) called once, for any target 1 <= L <= MaxTermLen
InitTerm ==
    /\ argv = <<ProgName>>
    /\ rng = "any"
    /\ pc = "loop"
    /\ status = -1
    /\ N = 1
    /\ LENGTH \in 1..MaxTermLen
    /\ i = 0
    /\ stdout = <<>>
    /\ stack = <<>>
    /\ choice = -1
    /\ result = <<>>
    /\ generated = <<>>

NextTerm ==
    \/ CallRandomTerm
    \/ Parenthesize
    \/ AppendPlus
    \/ AppendMinus
    \/ AppendTimes
    \/ ReturnSub
    \/ ReturnMain

SpecTerm == InitTerm /\ [][NextTerm]_vars

SpecTermFair == SpecTerm /\ WF_vars(NextTerm)

(***************************************************************************)
(* Properties                                                              *)
(***************************************************************************)
\* the text of a line: the concatenation of its chunks
RECURSIVE Text(_)
Text(line) == IF line = <<>> THEN "" ELSE line[1] \o Text(Tail(line))

Operators == {"+", "-", "*"}

\* the decimal numeral of n >= 0, digit by digit, without sign or leading zero
IsNumeralOf(line, n) ==
    /\ Len(line) >= 1
    /\ \A k \in 1..Len(line) : IsDigit(line[k])
    /\ (Len(line) > 1 => line[1] # "0")
    /\ DigitsValue(line) = n

\* main has returned from read_config
ConfigRead == pc \in {"header", "loop", "random_term", "print", "done"}

\* the header has been written
HeaderWritten == pc \in {"loop", "random_term", "print", "done"}

\* C1: a run with a valid configuration writes N div 2 as its first line
\* before any term is generated, then one line per generated term in the
\* order of generation; a completed run has written exactly N + 1 lines.
C1_Output ==
    /\ ~HeaderWritten => (generated = <<>> /\ stack = <<>>)
    /\ HeaderWritten =>
        /\ N > 0 /\ N % 2 = 0 /\ LENGTH > 0
        /\ Len(stdout) = 1 + i
        /\ IsNumeralOf(stdout[1], N \div 2)
        /\ 2 * DigitsValue(stdout[1]) = N
        /\ Len(generated) = (IF pc = "print" THEN i + 1 ELSE i)
        /\ \A k \in 1..i : stdout[k + 1] = generated[k]
    /\ pc = "done" =>
        /\ status = 0
        /\ Len(stdout) = N + 1
        /\ Len(generated) = N

C1_Witness ==
    /\ pc = "done"
    /\ Len(argv) = 3
    /\ N = 2
    /\ Len(stdout) = 3
    /\ stdout[1] = <<"1">>
    /\ stdout[2] # stdout[3]

\* a frame returns to the random_term call that waits for its value
SubReturns == Len(stack) >= 2 /\ Len(stack') = Len(stack) - 1

\* a random_term call starts a recursive random_term call
SubCalled == Len(stack) >= 1 /\ Len(stack') = Len(stack) + 1

\* a loop iteration of the running call wraps the term
Wrapped == Len(stack) >= 1 /\ Len(stack') = Len(stack) /\ stack' # stack

\* C2: the value random_term returns is at least as long as its target,
\* for the call made by main (result) and for every recursive call (the
\* piece the caller appends after the operator).
C2_LengthReached ==
    /\ [](pc = "print" => Len(result) >= LENGTH)
    /\ [][SubReturns =>
            Len(stack'[Len(stack')].term) >=
                Len(stack[Len(stack) - 1].term) + 1 + stack[Len(stack)].length]_vars

C2_Witness ==
    /\ pc = "print"
    /\ LENGTH = 3
    /\ Len(result) > LENGTH
    /\ \E k \in 1..Len(result) : result[k] \in Operators

ParenDepth(t, k) ==
    Cardinality({j \in 1..k : t[j] = "("}) - Cardinality({j \in 1..k : t[j] = ")"})

Balanced(t) ==
    /\ \A k \in 1..Len(t) : ParenDepth(t, k) >= 0
    /\ ParenDepth(t, Len(t)) = 0

\* C3: the term of every random_term call is balanced after every loop
\* iteration, and so is the returned term: as many "(" as ")", and no
\* prefix with more ")" than "(".
C3_Balanced ==
    /\ \A k \in 1..Len(stack) : Balanced(stack[k].term)
    /\ Balanced(result)

C3_Witness ==
    /\ pc = "print"
    /\ result[1] = "("
    /\ \E k \in 1..(Len(result) - 1) : result[k] = ")"
    /\ \E k \in 1..Len(result) : result[k] \in Operators

\* the invocation is invalid: wrong number of arguments, an argument that
\* is not an integer, N <= 0, LENGTH <= 0 or N odd
InvalidInvocation ==
    \/ Len(argv) \notin {1, 3}
    \/ /\ Len(argv) = 3
       /\ \/ ~ParseInt(argv[2]).ok
          \/ ~ParseInt(argv[3]).ok
          \/ ParseInt(argv[2]).val <= 0
          \/ ParseInt(argv[3]).val <= 0
          \/ ParseInt(argv[2]).val % 2 # 0

\* C4: an invalid invocation ends in read_config with the usage message on
\* standard output and exit status 1; no header line is written and no
\* term is generated.
C4_InvalidExits ==
    (InvalidInvocation /\ pc # "read_config") =>
        /\ pc = "exit"
        /\ status = 1
        /\ \E k \in 1..Len(stdout) : Text(stdout[k]) = "Usage: termgenerator.py N LENGTH"
        /\ \A k \in 1..Len(stdout) : ~ParseInt(stdout[k]).ok
        /\ generated = <<>>
        /\ stack = <<>>
        /\ result = <<>>

C4_Witness ==
    /\ pc = "exit"
    /\ status = 1
    /\ Len(argv) = 3
    /\ ParseInt(argv[2]) = [ok |-> TRUE, val |-> 0 - 3]
    /\ ParseInt(argv[3]).ok
    /\ ParseInt(argv[3]).val > 0

\* C5: without arguments read_config returns (20, 250); with two arguments
\* that pass validation it returns the pair they spell; the run without
\* arguments succeeds with "10" as first line and 20 term lines after it.
C5_Config ==
    /\ (Len(argv) = 1 /\ pc # "read_config") =>
        /\ ConfigRead
        /\ N = 20
        /\ LENGTH = 250
    /\ (Len(argv) = 3 /\ ConfigRead) =>
        /\ N = ParseInt(argv[2]).val
        /\ LENGTH = ParseInt(argv[3]).val
    /\ (Len(argv) = 1 /\ pc = "done") =>
        /\ status = 0
        /\ Len(stdout) = 21
        /\ Text(stdout[1]) = "10"
        /\ \A k \in 2..21 : stdout[k] = generated[k - 1]

C5_Witness ==
    /\ Len(argv) = 1
    /\ pc = "done"
    /\ Len(generated) = 20

\* the usage message of the specification, line by line
SpecUsageLines ==
    <<"Usage: termgenerator.py N LENGTH",
      "where",
      "  N:      Number of terms to generate (must be even)",
      "  LENGTH: Approximate length of each generated term",
      "The output of this script can be used as input for the LazyMathInstructor program.">>

\* C6 as stated: on an invalid invocation standard output holds exactly
\* the five lines of the usage message, nothing before or after them.
C6_FiveLinesOnly ==
    pc = "exit" =>
        /\ Len(stdout) = 5
        /\ \A k \in 1..5 : Text(stdout[k]) = SpecUsageLines[k]

\* C6 amended: on an invalid invocation standard output holds one empty
\* line followed by exactly the five lines of the usage message: six
\* lines, the same for every invalid input.
C6_BlankThenFiveLines ==
    pc = "exit" =>
        /\ Len(stdout) = 6
        /\ Text(stdout[1]) = ""
        /\ \A k \in 1..5 : Text(stdout[k + 1]) = SpecUsageLines[k]

C6_Witness ==
    /\ pc = "exit"
    /\ status = 1
    /\ Len(argv) = 2
    /\ Len(stdout) = 6

\* the pool: 205 entries, every letter a-z four times, the numeral of
\* every integer 0..100 once
PoolShape ==
    /\ Len(ATOMS) = 205
    /\ \A c \in 1..26 :
         Cardinality({k \in 1..Len(ATOMS) : ATOMS[k] = <<Letters[c]>>}) = 4
    /\ \A n \in 0..100 :
         Cardinality({k \in 1..Len(ATOMS) : IsNumeralOf(ATOMS[k], n)}) = 1

\* an atom: one letter, or a numeral of one to three digits
IsAtom(t) ==
    \/ Len(t) = 1 /\ \E c \in 1..26 : t[1] = Letters[c]
    \/ Len(t) \in 1..3 /\ \A k \in 1..Len(t) : IsDigit(t[k])

\* C7: the pool has the shape above and every random_term call starts
\* from an entry of the pool, an atom.
C7_Atoms ==
    /\ []PoolShape
    /\ [][Len(stack') = Len(stack) + 1 =>
            /\ \E k \in 1..Len(ATOMS) : stack'[Len(stack')].term = ATOMS[k]
            /\ IsAtom(stack'[Len(stack')].term)]_vars

C7_Witness ==
    /\ Len(stack) = 2
    /\ stack[1].term = <<"a">>
    /\ stack[2].term = <<"1", "0", "0">>

Max(a, b) == IF a >= b THEN a ELSE b

\* C8: an iteration runs only while the term is shorter than the target,
\* draws d in 0..101 and either wraps the term (d < 25) or starts a
\* sub-term after "+" (25 <= d < 45), "-" (45 <= d < 75) or "*" (d >= 75)
\* with a target in 1..max(1, L - currentLength); the returned sub-term is
\* appended after the operator.
C8_Iteration ==
    /\ [][(Wrapped \/ SubCalled) =>
            /\ Len(stack[Len(stack)].term) < stack[Len(stack)].length
            /\ choice' \in 0..101
            /\ (choice' < 25) = Wrapped
            /\ Wrapped =>
                 stack' = [stack EXCEPT ![Len(stack)].term =
                              <<"(">> \o stack[Len(stack)].term \o <<")">>]
            /\ SubCalled =>
                 /\ stack'[Len(stack)].term = stack[Len(stack)].term
                 /\ stack'[Len(stack)].length = stack[Len(stack)].length
                 /\ stack'[Len(stack)].op =
                        (IF choice' < 45 THEN "+" ELSE IF choice' < 75 THEN "-" ELSE "*")
                 /\ stack'[Len(stack')].length \in
                        1..Max(1, stack[Len(stack)].length - Len(stack[Len(stack)].term))
                 /\ \A k \in 1..(Len(stack) - 1) : stack'[k] = stack[k]]_vars
    /\ [][SubReturns =>
            stack'[Len(stack')].term =
                stack[Len(stack) - 1].term \o <<stack[Len(stack) - 1].op>> \o
                stack[Len(stack)].term]_vars

C8_Witness ==
    /\ Len(stack) = 3
    /\ stack[1].op = "+"
    /\ stack[2].op = "*"
    /\ choice = 75

\* C9: every iteration makes the term longer (at once when it wraps, on
\* the return of the sub-term when it appends), every recursive call has
\* a smaller target than its caller, the recursion is never deeper than
\* the target of the outermost call, and the outermost call returns.
C9_Terminates ==
    /\ [][Wrapped => Len(stack'[Len(stack')].term) > Len(stack[Len(stack)].term)]_vars
    /\ [][SubReturns =>
            Len(stack'[Len(stack')].term) > Len(stack[Len(stack) - 1].term)]_vars
    /\ [][SubCalled => stack'[Len(stack')].length < stack[Len(stack)].length]_vars
    /\ [](Len(stack) <= LENGTH)
    /\ <>(pc = "print")

\* a run that drew the parenthesization branch every time has returned
C9_Witness ==
    /\ pc = "print"
    /\ LENGTH >= 3
    /\ Len(result) >= 5
    /\ result[1] = "("
    /\ result[2] = "("
    /\ \A k \in 1..Len(result) : result[k] \notin Operators

\* C10: no term is longer than twice its target plus one: the running term
\* of every call, and the value returned to main.
C10_Overshoot ==
    /\ \A k \in 1..Len(stack) : Len(stack[k].term) <= 2 * stack[k].length + 1
    /\ pc = "print" => Len(result) <= 2 * LENGTH + 1

C10_Witness ==
    /\ pc = "print"
    /\ LENGTH >= 2
    /\ Len(result) = 2 * LENGTH + 1

====
